---- MODULE Spec2Model ----
(***************************************************************************)
(* The redstore session store of echocore: RedisStore.New / Get / Save     *)
(* against a remote key-value cache, the per-request session registry and  *)
(* the store middleware, modelled as a state machine.  One request is      *)
(* served at a time; the cache outlives the requests.  Further             *)
(* specifications over the same state cover requests served concurrently,  *)
(* the store's option setter, the key generator and the serializer on      *)
(* their own, Core.Init, request cancellation and SessionMiddleware.       *)
(***************************************************************************)
EXTENDS Integers, Sequences, FiniteSets, TLC

(* ------------------------------------------------------------------ *)
(* Bounds of the model                                                 *)
(* ------------------------------------------------------------------ *)

\* session objects one request's handler may build
MaxSessions == 1
\* session objects one request's handler may build when it only looks
\* sessions up and saves them as they are
MaxLookups == 2
\* largest max-age (seconds) a handler puts on a session
MaxMaxAge == 1
\* requests carrying the same cookie that are served at the same time
MaxRacers == 2
\* session objects alive while the store's default options are changed
MaxHolders == 2
\* calls of Core.Shutdown in one run of the process
MaxShutdowns == 2

(* ------------------------------------------------------------------ *)
(* Program constants                                                   *)
(* ------------------------------------------------------------------ *)

\* const keyPrefix, and the value InitSessStore passes to KeyPrefix
keyPrefix == "session:"
\* Config.Session.MaxAge, envDefault:"0"
SessMaxAge == 0
\* Config.Session.SessID, envDefault:"id"
SessID == "id"
\* const defaultMaxAge
defaultMaxAge == 86400 * 30

(* ------------------------------------------------------------------ *)
(* Value universes                                                     *)
(* ------------------------------------------------------------------ *)

\* identifiers: what the key generator can return and what a client can send
Ids == {"a", "b"}
\* the value of a cookie that is present: any identifier, or the empty value
CookieVals == Ids \cup {""}
\* keys and values a handler stores in session.Values; "func" is a value of a
\* type gob cannot encode
Keys == {"user"}
Unencodable == "func"
Vals == {"42", Unencodable}
\* outcome of one round trip to the cache
NetOutcomes == {"ok", "unavailable"}
\* ... and of one whose context was done before an answer came
CtxNetOutcomes == NetOutcomes \cup {"canceled"}
MaxAges == (-1) .. MaxMaxAge

\* errors
NoErr == "nil"
RedisNil == "redis: nil"
ErrUnavailable == "redis: unavailable"
ErrCorrupt == "gob: decode"
ErrEncode == "gob: encode"
ErrKeyGen == "redisstore: failed to generate session id"
ErrNoStore == "session store not found"

\* session.Values: a mapping defined on some of the keys
ValueMaps == UNION {[D -> Vals] : D \in SUBSET Keys}
EmptyValues == [k \in {} |-> "42"]

(* ------------------------------------------------------------------ *)
(* Serializer (GobSerializer)                                           *)
(* ------------------------------------------------------------------ *)

\* a payload: the entry count gob writes ahead of a map, then the entries;
\* no bytes at all (nil) have not even the count
NilBlob == [n |-> -1, pairs |-> <<>>]
\* a payload cut short: it announces an entry that is not there
CorruptBlob == [n |-> 1, pairs |-> <<>>]

\* gob encodes a value held in an interface only if its type is registered
Encodable(values) == \A k \in DOMAIN values : values[k] # Unencodable

\* Go iterates a map in no fixed order: every order of the keys is possible
Orderings(D) ==
    {o \in [1 .. Cardinality(D) -> D] :
        \A i, j \in 1 .. Cardinality(D) : i # j => o[i] # o[j]}

\* a Serialize that stops after the first entry of a larger map
Serialize_OnePair(values) ==
    IF ~Encodable(values)
    THEN {[err |-> ErrEncode, b |-> NilBlob]}
    ELSE {[err |-> NoErr,
           b |-> [n |-> IF Cardinality(DOMAIN values) > 1 THEN 1
                        ELSE Cardinality(DOMAIN values),
                  pairs |-> [i \in 1 .. (IF Cardinality(DOMAIN values) > 1 THEN 1
                                         ELSE Cardinality(DOMAIN values)) |->
                                <<o[i], values[o[i]]>>]]] :
            o \in Orderings(DOMAIN values)}

\* GobSerializer.Serialize: the possible (payload, error) results
Serialize(values) ==
    IF ~Encodable(values)
    THEN {[err |-> ErrEncode, b |-> NilBlob]}
    ELSE {[err |-> NoErr,
           b |-> [n |-> Cardinality(DOMAIN values),
                  pairs |-> [i \in 1 .. Cardinality(DOMAIN values) |->
                                <<o[i], values[o[i]]>>]]] :
            o \in Orderings(DOMAIN values)}

\* a Deserialize that reads the payload's header and leaves the map alone
Deserialize_KeepsMap(b, values) ==
    [err |-> IF b.n # Len(b.pairs) THEN ErrCorrupt ELSE NoErr, Values |-> values]

\* GobSerializer.Deserialize: decodes into the map the session already holds
Deserialize(b, values) ==
    IF b.n # Len(b.pairs)
    THEN [err |-> ErrCorrupt, Values |-> values]
    ELSE LET dk == {b.pairs[i][1] : i \in 1 .. Len(b.pairs)}
         IN [err |-> NoErr,
             Values |-> [k \in DOMAIN values \cup dk |->
                 IF k \in dk
                 THEN b.pairs[CHOOSE i \in 1 .. Len(b.pairs) : b.pairs[i][1] = k][2]
                 ELSE values[k]]]

(* ------------------------------------------------------------------ *)
(* Default key generator (NewRedisStore, keyGen)                       *)
(* ------------------------------------------------------------------ *)

\* const n
KeyGenN == 64
\* const letters, character by character
letters ==
    <<"0", "1", "2", "3", "4", "5", "6", "7", "8", "9",
      "A", "B", "C", "D", "E", "F", "G", "H", "I", "J", "K", "L", "M",
      "N", "O", "P", "Q", "R", "S", "T", "U", "V", "W", "X", "Y", "Z",
      "a", "b", "c", "d", "e", "f", "g", "h", "i", "j", "k", "l", "m",
      "n", "o", "p", "q", "r", "s", "t", "u", "v", "w", "x", "y", "z",
      "-">>
\* the characters of letters
LetterSet == {letters[i] : i \in 1 .. Len(letters)}

\* rand.Int(rand.Reader, max): a failure of the source, or a number in [0, max)
RandFail == -1
RandInt(max) == {RandFail} \cup (0 .. max - 1)

\* a generator that hands back what it has built so far when the source fails
KeyGenOnError_Partial(filled) == filled

\* keyGen: the length of the string returned when the source fails ("")
KeyGenOnError(filled) == 0

(* ------------------------------------------------------------------ *)
(* SkipperRouteName (two copies of the middleware file)                *)
(* ------------------------------------------------------------------ *)

\* methods, paths and route names of a small application
Methods == {"GET", "POST"}
Paths == {"/a", "/b"}
RouteNames == {"x", "y"}
\* c.Echo().Routes(): for each method and path at most one route, with a name
Unrouted == "-"
RouteTables == [Methods \X Paths -> RouteNames \cup {Unrouted}]
Routes(t) ==
    {[Method |-> mp[1], Path |-> mp[2], Name |-> t[mp]] :
        mp \in {x \in Methods \X Paths : t[x] # Unrouted}}

\* SkipperRouteName as in the first copy: any registered route with a listed
\* name makes it answer true
SkipperRouteName(routeNames, routes, method, path) ==
    IF routeNames = {} THEN FALSE
    ELSE \E r \in routes : r.Name \in routeNames

\* SkipperRouteName as in the second copy: only a route with the request's
\* method and path is looked at
SkipperRouteNameMatch(routeNames, routes, method, path) ==
    IF routeNames = {} THEN FALSE
    ELSE \E r \in routes :
            r.Method = method /\ r.Path = path /\ r.Name \in routeNames

(* ------------------------------------------------------------------ *)
(* Cache client (redis.UniversalClient) as the store uses it           *)
(* ------------------------------------------------------------------ *)

NoEntry == [present |-> FALSE, b |-> NilBlob, ttl |-> 0]
Key(id) == keyPrefix \o id
CacheKeys == {Key(i) : i \in Ids \cup {""}}

\* a save that never puts an expiry on the key
Expiration_None(maxAge) == 0

\* time.Duration(MaxAge)*time.Second handed to SET, in seconds
Expiration(maxAge) == maxAge

\* SET with an expiration above zero puts that expiry on the key; with zero
\* the key is kept until it is deleted
Expires(entry) == entry.ttl > 0

ClientGet(c, k, net) ==
    IF net # "ok" THEN [err |-> ErrUnavailable, b |-> NilBlob]
    ELSE IF ~c[k].present THEN [err |-> RedisNil, b |-> NilBlob]
    ELSE [err |-> NoErr, b |-> c[k].b]

\* a SET that writes only when the key is not there yet
ClientSet_IfAbsent(c, k, b, ttl, net) ==
    IF net # "ok" THEN [err |-> ErrUnavailable, cache |-> c]
    ELSE IF c[k].present THEN [err |-> NoErr, cache |-> c]
    ELSE [err |-> NoErr,
          cache |-> [c EXCEPT ![k] = [present |-> TRUE, b |-> b, ttl |-> ttl]]]

\* SET replaces whatever the key held
ClientSet(c, k, b, ttl, net) ==
    IF net # "ok" THEN [err |-> ErrUnavailable, cache |-> c]
    ELSE [err |-> NoErr,
          cache |-> [c EXCEPT ![k] = [present |-> TRUE, b |-> b, ttl |-> ttl]]]

\* a DEL that reports a missing key the way GET does
ClientDel_NilOnMissing(c, k, net) ==
    IF net # "ok" THEN [err |-> ErrUnavailable, cache |-> c]
    ELSE IF ~c[k].present THEN [err |-> RedisNil, cache |-> c]
    ELSE [err |-> NoErr, cache |-> [c EXCEPT ![k] = NoEntry]]

\* DEL answers the number of keys removed; removing none is no error
ClientDel(c, k, net) ==
    IF net # "ok" THEN [err |-> ErrUnavailable, cache |-> c]
    ELSE [err |-> NoErr, cache |-> [c EXCEPT ![k] = NoEntry]]

(* ------------------------------------------------------------------ *)
(* RedisStore: save, load, delete                                      *)
(* ------------------------------------------------------------------ *)

\* RedisStore.load
load(c, session, net) ==
    LET cmd == ClientGet(c, Key(session.ID), net)
    IN IF cmd.err # NoErr
       THEN [err |-> cmd.err, Values |-> session.Values]
       ELSE Deserialize(cmd.b, session.Values)

\* a save that leaves the prefix out of the key
save_NoPrefix(c, session, net) ==
    {IF ser.err # NoErr
     THEN [err |-> ser.err, cache |-> c, ops |-> {}]
     ELSE LET r == ClientSet(c, session.ID, ser.b,
                             Expiration(session.MaxAge), net)
          IN [err |-> r.err, cache |-> r.cache,
              ops |-> {[cmd |-> "SET", key |-> session.ID]}] :
        ser \in Serialize(session.Values)}

\* RedisStore.save: the possible results, one per payload Serialize may give
save(c, session, net) ==
    {IF ser.err # NoErr
     THEN [err |-> ser.err, cache |-> c, ops |-> {}]
     ELSE LET r == ClientSet(c, Key(session.ID), ser.b,
                             Expiration(session.MaxAge), net)
          IN [err |-> r.err, cache |-> r.cache,
              ops |-> {[cmd |-> "SET", key |-> Key(session.ID)]}] :
        ser \in Serialize(session.Values)}

\* a delete that reports success without removing the key
delete_Skips(c, session, net) ==
    [err |-> IF net # "ok" THEN ErrUnavailable ELSE NoErr, cache |-> c,
     ops |-> {[cmd |-> "DEL", key |-> Key(session.ID)]}]

\* RedisStore.delete
delete(c, session, net) ==
    LET r == ClientDel(c, Key(session.ID), net)
    IN [err |-> r.err, cache |-> r.cache,
        ops |-> {[cmd |-> "DEL", key |-> Key(session.ID)]}]

(* ------------------------------------------------------------------ *)
(* RedisStore: New, Save, and the per-request registry behind Get      *)
(* ------------------------------------------------------------------ *)

\* a session object: sessions.Session with the Options field the store reads;
\* saved is history: the id under which Save last stored this object
NewSession(name, opts) ==
    [name |-> name, ID |-> "", Values |-> EmptyValues,
     MaxAge |-> opts.MaxAge, IsNew |-> TRUE, saved |-> ""]

NoCookie == [present |-> FALSE, value |-> ""]
RequestCookies == {NoCookie} \cup {[present |-> TRUE, value |-> v] : v \in CookieVals}

\* a New that ignores the error of r.Cookie
HasCookie_Always(cookie) == TRUE

\* r.Cookie(name) found the cookie (err == nil)
HasCookie(cookie) == cookie.present

\* a New that clears IsNew whenever load gave no hard error
LoadedIsNew_OnlyOnError(err) == err \notin {NoErr, RedisNil}

\* New: the session is no longer new exactly when load returned nil
LoadedIsNew(err) == err # NoErr

\* a New that also drops the decoder's error
NewErr_DropsCorrupt(err) == IF err \in {RedisNil, ErrCorrupt} THEN NoErr ELSE err

\* New: "no data stored" is the one load error that is dropped
NewErr(err) == IF err = RedisNil THEN NoErr ELSE err

\* RedisStore.New
RedisStoreNew(c, opts, cookie, name, net) ==
    LET session == NewSession(name, opts)
    IN IF ~HasCookie(cookie)
       THEN [session |-> session, err |-> NoErr, ops |-> {}]
       ELSE LET s1 == [session EXCEPT !.ID = cookie.value]
                l == load(c, s1, net)
            IN [session |-> [s1 EXCEPT !.Values = l.Values,
                                       !.IsNew = LoadedIsNew(l.err)],
                err |-> NewErr(l.err),
                ops |-> {[cmd |-> "GET", key |-> Key(s1.ID)]}]

\* sessions.NewCookie(name, value, options)
NewCookie(name, value, maxAge) == [name |-> name, value |-> value, maxAge |-> maxAge]

\* a Save that deletes at max-age <= 0
IsDelete_AtZero(maxAge) == maxAge <= 0

\* Save: the branch that deletes instead of writing
IsDelete(maxAge) == maxAge < 0

\* a Save that asks for a new id every time
NeedsKeyGen_Always(session) == TRUE

\* Save: the session has no id yet
NeedsKeyGen(session) == session.ID = ""

\* outcomes of one keyGen call: an error, or any identifier
KeyGenResults == {[err |-> TRUE, id |-> ""]} \cup {[err |-> FALSE, id |-> i] : i \in Ids}

\* Save: the cookie written once the delete went through
ClearCookies(session, err) ==
    IF err = NoErr THEN <<NewCookie(session.name, "", session.MaxAge)>> ELSE <<>>

\* a Save that writes the cookie whatever save returned
IdCookies_Always(session, err) ==
    <<NewCookie(session.name, session.ID, session.MaxAge)>>

\* Save: the cookie written once the blob is stored
IdCookies(session, err) ==
    IF err = NoErr THEN <<NewCookie(session.name, session.ID, session.MaxAge)>> ELSE <<>>

\* RedisStore.Save: the possible results
RedisStoreSave(c, session, net, kg) ==
    IF IsDelete(session.MaxAge)
    THEN LET d == delete(c, session, net)
         IN {[session |-> session, err |-> d.err, cache |-> d.cache, ops |-> d.ops,
              cookies |-> ClearCookies(session, d.err), gen |-> FALSE]}
    ELSE IF NeedsKeyGen(session) /\ kg.err
    THEN {[session |-> session, err |-> ErrKeyGen, cache |-> c, ops |-> {},
           cookies |-> <<>>, gen |-> TRUE]}
    ELSE LET s1 == IF NeedsKeyGen(session)
                   THEN [session EXCEPT !.ID = kg.id] ELSE session
         IN {[session |-> s1, err |-> r.err, cache |-> r.cache, ops |-> r.ops,
              cookies |-> IdCookies(s1, r.err), gen |-> NeedsKeyGen(session)] :
                r \in save(c, s1, net)}

\* NewRedisStore: the store is built with the default prefix and options and
\* returned together with the result of one PING
NewRedisStore(client, net) ==
    [rs |-> [set |-> TRUE, keyPrefix |-> keyPrefix, MaxAge |-> defaultMaxAge],
     err |-> IF net = "ok" THEN NoErr ELSE ErrUnavailable,
     pings |-> 1]

\* a middleware that attaches whatever Get returned
Attach_Always(sess, err) == sess

\* SessionMiddleware: c.Set(CtxSession, sess) only when Get returned no error
\* (0: nothing attached)
Attach(sess, err) == IF err = NoErr THEN sess ELSE 0

\* a store that gives the cache no way to see the request end
CallCtx_Background(op) == "background"

\* the context New and Save hand to load, save and delete: r.Context()
CallCtx(op) == "request"

\* the cache client: a command whose context is done fails with the context's
\* error; otherwise it returns once the cache answers or the connection fails,
\* and waits as long as the cache does neither
CtxOutcomes(ctx, cl) ==
    IF ctx = "request" /\ cl.done THEN {"canceled"}
    ELSE IF cl.stuck THEN {}
    ELSE NetOutcomes

\* sessions.Registry: name -> the session (by its place in the request's heap)
\* and the error New returned for it
Names == {SessID}
NoInfo == [present |-> FALSE, s |-> 0, e |-> NoErr]
EmptyRegistry == [n \in Names |-> NoInfo]

\* a registry that never finds a name
RegistryHit_Never(reg, name) == FALSE

\* Registry.Get: the name is already registered
RegistryHit(reg, name) == reg[name].present

(* ------------------------------------------------------------------ *)
(* State                                                               *)
(* ------------------------------------------------------------------ *)

VARIABLES
    cache,      \* the remote cache: key -> entry
    options,    \* RedisStore.options, the defaults for new sessions
    req,        \* the request being served: its cookie, whether the store is in its context
    sessions,   \* the session objects built while serving the request
    registry,   \* the request's session registry
    loads,      \* cache GETs the request caused, by entry point
    generated,  \* identifiers keyGen has returned
    stored,     \* per identifier, the values the last successful Save left in the cache
    last,       \* the store call just made and what it did
    core,       \* the Core: its Redis client, its session store, the init handlers run
    unit,       \* one run of the key generator or of the serializer on its own
    call,       \* the request's context and the store call waiting on the cache
    mw          \* SessionMiddleware's run for the request

vars == <<cache, options, req, sessions, registry, loads, generated, stored, last,
          core, unit, call, mw>>
\* what the store's own operations leave alone
aux == <<core, unit, call, mw>>
\* the cache, the store and the request it serves
storeVars == <<cache, options, req, sessions, registry, loads, generated, stored, last>>

NoSession == NewSession("", [MaxAge |-> SessMaxAge])
NoLast ==
    [op |-> "none", sess |-> 0, err |-> NoErr, ops |-> {}, cookies |-> <<>>,
     gen |-> FALSE, hit |-> FALSE, net |-> "ok", was |-> NoEntry, pre |-> NoSession]
NoRequest == [active |-> FALSE, cookie |-> NoCookie, store |-> FALSE]
\* the request's context is live, the cache answers, no store call waits
NoCall == [done |-> FALSE, stuck |-> FALSE, pending |-> "none", s |-> 0, ctx |-> "none"]
\* SessionMiddleware has not run for the request: nothing is attached under
\* CtxSession, next has not been called
NoMw == [phase |-> "idle", attached |-> 0, geterr |-> NoErr, nexts |-> 0,
         res |-> NoErr, ret |-> NoErr]
\* what the next handler may return
HandlerResults == {NoErr, "handler: error"}
\* Core.SessStore == nil
NilStore == [set |-> FALSE, keyPrefix |-> "", MaxAge |-> 0]
\* the init handlers an application hands to Core.Init, and the lists it may
\* hand over: any of them, each at most once, in any order
InitHandlers == {"InitGorm", "InitRedis", "InitSessStore", "InitTmpDir"}
InitLists ==
    UNION {{l \in [1 .. k -> InitHandlers] : \A i, j \in 1 .. k : i # j => l[i] # l[j]} :
              k \in 0 .. Cardinality(InitHandlers)}
\* NewCore returned: nothing is initialised yet
\* released counts, per resource, the calls that release it (Close of the
\* one Redis client, Close of the database, RemoveAll of the directory);
\* lastCloses is what the latest Shutdown released
NoneReleased == [redis |-> 0, gorm |-> 0, tmp |-> 0]
\* Run has not been called: main is where Run's goroutine stands, lis where
\* ListenSig stands, sig the signals waiting in chsig, wg the WaitGroup's
\* counter, server the state of the echo server
NotRunning ==
    [main |-> "idle", lis |-> "none", sig |-> 0, wg |-> 0, server |-> "none"]
\* make(chan os.Signal, 1)
SigCap == 1
CoreNew ==
    [phase |-> "new", Redis |-> "nil", SessStore |-> NilStore, inits |-> <<>>,
     ran |-> <<>>, err |-> NoErr, pings |-> 0,
     Gorm |-> "nil", TmpDir |-> "", released |-> NoneReleased,
     shutdowns |-> 0, lastCloses |-> 0, run |-> NotRunning]
\* the Core after Init ran InitRedis and InitSessStore without an error
CoreUp ==
    [phase |-> "up", Redis |-> "open",
     SessStore |-> [set |-> TRUE, keyPrefix |-> "session:", MaxAge |-> SessMaxAge],
     inits |-> <<"InitRedis", "InitSessStore">>,
     ran |-> <<"InitRedis", "InitSessStore">>, err |-> NoErr, pings |-> 1,
     Gorm |-> "nil", TmpDir |-> "", released |-> NoneReleased,
     shutdowns |-> 0, lastCloses |-> 0, run |-> NotRunning]
\* neither the key generator nor the serializer is being run on its own
NoUnit == [kind |-> "none"]
\* values mappings handed to the serializer on its own: two keys; "[1 2]" is a
\* composite value of a type gob knows (a slice)
CodecKeys == {"user", "role"}
CodecVals == {"42", "[1 2]", Unencodable}
CodecMaps == UNION {[D -> CodecVals] : D \in SUBSET CodecKeys}

NotStored == [present |-> FALSE, Values |-> EmptyValues]
\* history: the entry of the identifier went away by a Save that deleted it
Deleted == [present |-> FALSE, Values |-> EmptyValues, gone |-> "deleted"]
\* history: the entry of the identifier went away when its time to live ran out
Expired == [present |-> FALSE, Values |-> EmptyValues, gone |-> "expired"]

\* NewRedisStore and Core.InitSessStore have run: an empty cache, the configured defaults
InitStore ==
    /\ cache = [k \in CacheKeys |-> NoEntry]
    /\ options = [MaxAge |-> SessMaxAge]
    /\ req = NoRequest
    /\ sessions = <<>>
    /\ registry = EmptyRegistry
    /\ loads = [Get |-> 0, New |-> 0]
    /\ generated = {}
    /\ stored = [i \in Ids \cup {""} |-> NotStored]
    /\ last = NoLast

\* the Core is up, nothing else is under way
InitAux ==
    /\ core = CoreUp
    /\ unit = NoUnit
    /\ call = NoCall
    /\ mw = NoMw

Init == InitStore /\ InitAux

(* ------------------------------------------------------------------ *)
(* Actions                                                             *)
(* ------------------------------------------------------------------ *)

\* MiddlewareWithConfig: a request arrives; unless skipped, the store is put
\* in its context before the handler runs
BeginRequestStep(cookie, skip) ==
    /\ ~req.active
    /\ req' = [active |-> TRUE, cookie |-> cookie, store |-> ~skip]
    /\ sessions' = <<>>
    /\ registry' = EmptyRegistry
    /\ loads' = [Get |-> 0, New |-> 0]
    /\ last' = NoLast
    /\ UNCHANGED <<cache, options, generated, stored>>

\* BeginRequest where only the store and its request are under way
BeginRequest(cookie, skip) == BeginRequestStep(cookie, skip) /\ UNCHANGED aux

\* the handler returns: context.Clear, the session objects are dropped
EndRequestStep ==
    /\ req.active
    /\ req' = NoRequest
    /\ sessions' = <<>>
    /\ registry' = EmptyRegistry
    /\ loads' = [Get |-> 0, New |-> 0]
    /\ last' = NoLast
    /\ UNCHANGED <<cache, options, generated, stored>>

\* EndRequest where only the store and its request are under way
EndRequest == EndRequestStep /\ UNCHANGED aux

\* a New that removes the entry it could not decode
NewCallStep_DropsCorrupt(name, net) ==
    /\ req.active
    /\ IF ~req.store
       THEN /\ last' = [NoLast EXCEPT !.op = "New", !.err = ErrNoStore]
            /\ UNCHANGED <<sessions, loads, cache>>
       ELSE LET r == RedisStoreNew(cache, options, req.cookie, name, net)
            IN /\ sessions' = Append(sessions, r.session)
               /\ loads' = [loads EXCEPT !.New = @ + Cardinality(r.ops)]
               /\ cache' = IF r.err = ErrCorrupt
                           THEN [cache EXCEPT ![Key(r.session.ID)] = NoEntry]
                           ELSE cache
               /\ last' = [NoLast EXCEPT !.op = "New", !.sess = Len(sessions) + 1,
                                         !.err = r.err, !.ops = r.ops,
                                         !.net = IF r.ops = {} THEN "ok" ELSE net,
                                         !.was = cache[Key(r.session.ID)]]
    /\ UNCHANGED <<options, req, registry, generated, stored>>

\* redstore.New(name, c): getstore, then RedisStore.New
NewCallStep(name, net) ==
    /\ req.active
    /\ IF ~req.store
       THEN /\ last' = [NoLast EXCEPT !.op = "New", !.err = ErrNoStore]
            /\ UNCHANGED <<sessions, loads>>
       ELSE LET r == RedisStoreNew(cache, options, req.cookie, name, net)
            IN /\ sessions' = Append(sessions, r.session)
               /\ loads' = [loads EXCEPT !.New = @ + Cardinality(r.ops)]
               /\ last' = [NoLast EXCEPT !.op = "New", !.sess = Len(sessions) + 1,
                                         !.err = r.err, !.ops = r.ops,
                                         !.net = IF r.ops = {} THEN "ok" ELSE net,
                                         !.was = cache[Key(r.session.ID)]]
    /\ UNCHANGED <<cache, options, req, registry, generated, stored>>

\* NewCall where only the store and its request are under way
NewCall(name, net) == NewCallStep(name, net) /\ UNCHANGED aux

\* redstore.Get(name, c): getstore, then RedisStore.Get, i.e. Registry.Get
GetCallStep(name, net) ==
    /\ req.active
    /\ IF ~req.store
       THEN /\ last' = [NoLast EXCEPT !.op = "Get", !.err = ErrNoStore]
            /\ UNCHANGED <<sessions, loads, registry>>
       ELSE IF RegistryHit(registry, name)
       THEN /\ last' = [NoLast EXCEPT !.op = "Get", !.sess = registry[name].s,
                                      !.err = registry[name].e, !.hit = TRUE]
            /\ UNCHANGED <<sessions, loads, registry>>
       ELSE LET r == RedisStoreNew(cache, options, req.cookie, name, net)
            IN /\ sessions' = Append(sessions, r.session)
               /\ registry' = [registry EXCEPT ![name] =
                      [present |-> TRUE, s |-> Len(sessions) + 1, e |-> r.err]]
               /\ loads' = [loads EXCEPT !.Get = @ + Cardinality(r.ops)]
               /\ last' = [NoLast EXCEPT !.op = "Get", !.sess = Len(sessions) + 1,
                                         !.err = r.err, !.ops = r.ops,
                                         !.net = IF r.ops = {} THEN "ok" ELSE net,
                                         !.was = cache[Key(r.session.ID)]]
    /\ UNCHANGED <<cache, options, req, generated, stored>>

\* GetCall where only the store and its request are under way
GetCall(name, net) == GetCallStep(name, net) /\ UNCHANGED aux

\* a handler that also changes its sessions calls New
HandlerNew(name, net) ==
    /\ Len(sessions) < MaxSessions
    /\ NewCall(name, net)

\* a handler that also changes its sessions calls Get
HandlerGet(name, net) ==
    /\ RegistryHit(registry, name) \/ Len(sessions) < MaxSessions
    /\ GetCall(name, net)

\* a handler that only looks sessions up calls New
LookupNew(name, net) ==
    /\ Len(sessions) < MaxLookups
    /\ NewCall(name, net)

\* a handler that only looks sessions up calls Get
LookupGet(name, net) ==
    /\ RegistryHit(registry, name) \/ Len(sessions) < MaxLookups
    /\ GetCall(name, net)

\* the handler stores a value in session.Values
SetValue(s, k, v) ==
    /\ req.active
    /\ s \in 1 .. Len(sessions)
    /\ sessions' = [sessions EXCEPT ![s].Values =
           [x \in DOMAIN sessions[s].Values \cup {k} |->
               IF x = k THEN v ELSE sessions[s].Values[x]]]
    /\ last' = NoLast
    /\ UNCHANGED <<cache, options, req, registry, loads, generated, stored>>
    /\ UNCHANGED aux

\* the handler overrides session.Options.MaxAge
SetMaxAge(s, m) ==
    /\ req.active
    /\ s \in 1 .. Len(sessions)
    /\ sessions' = [sessions EXCEPT ![s].MaxAge = m]
    /\ last' = NoLast
    /\ UNCHANGED <<cache, options, req, registry, loads, generated, stored>>
    /\ UNCHANGED aux

\* session.Save(r, w): RedisStore.Save
HandlerSaveStep(s, net, kg) ==
    /\ req.active
    /\ s \in 1 .. Len(sessions)
    /\ \E r \in RedisStoreSave(cache, sessions[s], net, kg) :
          /\ sessions' = [sessions EXCEPT ![s] =
                 IF r.err = NoErr /\ ~IsDelete(sessions[s].MaxAge)
                 THEN [r.session EXCEPT !.saved = r.session.ID] ELSE r.session]
          /\ cache' = r.cache
          /\ generated' = IF r.gen /\ r.err # ErrKeyGen
                          THEN generated \cup {r.session.ID} ELSE generated
          /\ stored' =
               IF r.err # NoErr \/ r.ops = {} THEN stored
               ELSE IF IsDelete(sessions[s].MaxAge)
               THEN [stored EXCEPT ![r.session.ID] = Deleted]
               ELSE [stored EXCEPT ![r.session.ID] =
                        [present |-> TRUE, Values |-> r.session.Values]]
          /\ last' = [op |-> "Save", sess |-> s, err |-> r.err, ops |-> r.ops,
                      cookies |-> r.cookies, gen |-> r.gen, hit |-> FALSE,
                      net |-> IF r.ops = {} THEN "ok" ELSE net,
                      was |-> cache[Key(r.session.ID)], pre |-> sessions[s]]
    /\ UNCHANGED <<options, req, registry, loads>>

\* HandlerSave where only the store and its request are under way
HandlerSave(s, net, kg) == HandlerSaveStep(s, net, kg) /\ UNCHANGED aux

\* the cache drops an entry whose time to live has run out
Expire(k) ==
    /\ cache[k].present
    /\ Expires(cache[k])
    /\ cache' = [cache EXCEPT ![k] = NoEntry]
    /\ stored' = [i \in Ids \cup {""} |-> IF Key(i) = k THEN Expired ELSE stored[i]]
    /\ last' = NoLast
    /\ UNCHANGED <<options, req, sessions, registry, loads, generated>>
    /\ UNCHANGED aux

\* another client of the cache leaves a payload under a session key that the
\* serializer cannot decode
ForeignWrite(k) ==
    /\ cache[k] # [present |-> TRUE, b |-> CorruptBlob, ttl |-> 0]
    /\ cache' = [cache EXCEPT ![k] = [present |-> TRUE, b |-> CorruptBlob, ttl |-> 0]]
    /\ stored' = [i \in Ids \cup {""} |-> IF Key(i) = k THEN NotStored ELSE stored[i]]
    /\ last' = NoLast
    /\ UNCHANGED <<options, req, sessions, registry, loads, generated>>
    /\ UNCHANGED aux

Next ==
    \/ \E cookie \in RequestCookies, skip \in BOOLEAN : BeginRequest(cookie, skip)
    \/ EndRequest
    \/ \E name \in Names, net \in NetOutcomes : HandlerNew(name, net)
    \/ \E name \in Names, net \in NetOutcomes : HandlerGet(name, net)
    \/ \E s \in 1 .. MaxSessions, k \in Keys, v \in Vals : SetValue(s, k, v)
    \/ \E s \in 1 .. MaxSessions, m \in MaxAges : SetMaxAge(s, m)
    \/ \E s \in 1 .. MaxSessions, net \in NetOutcomes, kg \in KeyGenResults :
          HandlerSave(s, net, kg)
    \/ \E k \in CacheKeys : Expire(k)
    \/ \E i \in Ids : ForeignWrite(Key(i))

Spec == Init /\ [][Next]_vars

\* requests whose handlers build several session objects, look them up again
\* and save them unchanged
NextLookup ==
    \/ \E cookie \in RequestCookies, skip \in BOOLEAN : BeginRequest(cookie, skip)
    \/ EndRequest
    \/ \E name \in Names, net \in NetOutcomes : LookupNew(name, net)
    \/ \E name \in Names, net \in NetOutcomes : LookupGet(name, net)
    \/ \E s \in 1 .. MaxLookups, net \in NetOutcomes, kg \in KeyGenResults :
          HandlerSave(s, net, kg)
    \/ \E i \in Ids : ForeignWrite(Key(i))

SpecLookup == Init /\ [][NextLookup]_vars

\* one more of the requests that carry the same cookie and are served at the
\* same time reaches its handler, which calls New: the request gets a session
\* object of its own (sessions[i] is held by the i-th of these requests)
RaceNew(name, net) ==
    /\ Len(sessions) < MaxRacers
    /\ NewCall(name, net)

\* requests with the same cookie served concurrently: their handlers' store
\* calls interleave in any order; each call sends at most one command, which
\* the cache applies as a whole
NextRace ==
    \/ \E cookie \in RequestCookies, skip \in BOOLEAN : BeginRequest(cookie, skip)
    \/ EndRequest
    \/ \E name \in Names, net \in NetOutcomes : RaceNew(name, net)
    \/ \E s \in 1 .. MaxRacers, k \in Keys, v \in Vals : SetValue(s, k, v)
    \/ \E s \in 1 .. MaxRacers, net \in NetOutcomes, kg \in KeyGenResults :
          HandlerSave(s, net, kg)

SpecRace == Init /\ [][NextRace]_vars

\* a setter that writes through to the options the sessions hold
StoreOptions_Shared(m) ==
    /\ options' = [MaxAge |-> m]
    /\ sessions' = [i \in DOMAIN sessions |-> [sessions[i] EXCEPT !.MaxAge = m]]
    /\ last' = NoLast
    /\ UNCHANGED <<cache, req, registry, loads, generated, stored>>
    /\ UNCHANGED aux

\* RedisStore.Options(opts): s.options = opts
StoreOptions(m) ==
    /\ options' = [MaxAge |-> m]
    /\ last' = NoLast
    /\ UNCHANGED <<cache, req, sessions, registry, loads, generated, stored>>
    /\ UNCHANGED aux

\* a handler calls New while other session objects are alive
HolderNew(name, net) ==
    /\ Len(sessions) < MaxHolders
    /\ NewCall(name, net)

\* the store's defaults are set again while sessions built from them are alive
NextOptions ==
    \/ \E cookie \in RequestCookies, skip \in BOOLEAN : BeginRequest(cookie, skip)
    \/ EndRequest
    \/ \E name \in Names, net \in NetOutcomes : HolderNew(name, net)
    \/ \E s \in 1 .. MaxHolders, m \in MaxAges : SetMaxAge(s, m)
    \/ \E m \in MaxAges : StoreOptions(m)

SpecOptions == Init /\ [][NextOptions]_vars

\* keyGen is called: ret := make([]byte, n), i := 0
KeyGenCall ==
    /\ unit = NoUnit
    /\ unit' = [kind |-> "keyGen", i |-> 0, c |-> "", done |-> FALSE,
                err |-> FALSE, retLen |-> 0]
    /\ UNCHANGED <<storeVars, core, call, mw>>

\* one turn of keyGen's loop: draw an index; on failure return ("", err),
\* otherwise ret[i] = letters[index]
KeyGenDraw(num) ==
    /\ unit.kind = "keyGen" /\ ~unit.done
    /\ unit.i < KeyGenN
    /\ unit' = IF num = RandFail
               THEN [unit EXCEPT !.done = TRUE, !.err = TRUE,
                                 !.retLen = KeyGenOnError(unit.i)]
               ELSE [unit EXCEPT !.c = letters[num + 1], !.i = @ + 1]
    /\ UNCHANGED <<storeVars, core, call, mw>>

\* keyGen's loop is over: return string(ret), nil
KeyGenReturn ==
    /\ unit.kind = "keyGen" /\ ~unit.done
    /\ unit.i >= KeyGenN
    /\ unit' = [unit EXCEPT !.done = TRUE, !.retLen = KeyGenN]
    /\ UNCHANGED <<storeVars, core, call, mw>>

\* GobSerializer.Serialize on a session holding the values v
SerializeCall(v) ==
    /\ unit = NoUnit
    /\ \E ser \in Serialize(v) :
          unit' = [kind |-> "codec", V |-> v, values |-> v, ser |-> ser,
                   decoded |-> FALSE, out |-> [err |-> NoErr, Values |-> EmptyValues]]
    /\ UNCHANGED <<storeVars, core, call, mw>>

\* GobSerializer.Deserialize of the payload into a fresh session
DeserializeCall ==
    /\ unit.kind = "codec" /\ ~unit.decoded
    /\ unit.ser.err = NoErr
    /\ unit' = [unit EXCEPT !.decoded = TRUE,
                            !.out = Deserialize(unit.ser.b, EmptyValues)]
    /\ UNCHANGED <<storeVars, core, call, mw>>

\* the skipper built by SkipperRouteName(names) is asked about a request,
\* in the application built from either copy of the middleware file
SkipperCall(copy, t, names, method, path) ==
    /\ unit = NoUnit
    /\ unit' = [kind |-> "skipper", copy |-> copy, routes |-> Routes(t),
                names |-> names, method |-> method, path |-> path,
                out |-> IF copy = "part_001"
                        THEN SkipperRouteName(names, Routes(t), method, path)
                        ELSE SkipperRouteNameMatch(names, Routes(t), method, path)]
    /\ UNCHANGED <<storeVars, core, call, mw>>

\* the run is over
UnitDone ==
    /\ \/ unit.kind = "keyGen" /\ unit.done
       \/ unit.kind = "codec" /\ (unit.decoded \/ unit.ser.err # NoErr)
       \/ unit.kind = "skipper"
    /\ unit' = NoUnit
    /\ UNCHANGED <<storeVars, core, call, mw>>

\* the key generator, the serializer and the route skipper, each run on its own
NextUnits ==
    \/ \E copy \in {"part_001", "part_002"}, t \in RouteTables,
          names \in SUBSET RouteNames, method \in Methods, path \in Paths :
          SkipperCall(copy, t, names, method, path)
    \/ KeyGenCall
    \/ \E num \in RandInt(Len(letters)) : KeyGenDraw(num)
    \/ KeyGenReturn
    \/ \E v \in CodecMaps : SerializeCall(v)
    \/ DeserializeCall
    \/ UnitDone

SpecUnits == Init /\ [][NextUnits]_vars

\* an Init that walks its list from the end
NextInit_Backwards == core.inits[Len(core.inits) - Len(core.ran)]

\* the init handler Core.Init calls next
NextInit == core.inits[Len(core.ran) + 1]
\* Core.Init is inside its loop with handlers left to call
InInit == core.phase = "init" /\ Len(core.ran) < Len(core.inits)

\* the application calls Core.Init(inits)
CoreInit(inits) ==
    /\ core.phase = "new"
    /\ core' = [core EXCEPT !.phase = "init", !.inits = inits]
    /\ UNCHANGED <<storeVars, unit, call, mw>>

\* Core.Init calls the handler InitRedis: new client, PING, Close on failure
InitRedis(net) ==
    /\ InInit /\ NextInit = "InitRedis"
    /\ core' = IF net = "ok"
               THEN [core EXCEPT !.Redis = "open", !.ran = Append(@, "InitRedis")]
               ELSE [core EXCEPT !.Redis = "closed", !.ran = Append(@, "InitRedis"),
                                 !.released.redis = @ + 1,
                                 !.err = ErrUnavailable, !.phase = "failed"]
    /\ UNCHANGED <<storeVars, unit, call, mw>>

\* Core.Init calls the handler InitSessStore; without a client the PING
\* dereferences nil and the process panics
InitSessStore(net) ==
    /\ InInit /\ NextInit = "InitSessStore"
    /\ IF core.Redis = "nil"
       THEN core' = [core EXCEPT !.ran = Append(@, "InitSessStore"),
                                 !.phase = "panicked"]
       ELSE LET r == NewRedisStore(core.Redis, net)
            IN core' =
                 IF r.err # NoErr
                 THEN [core EXCEPT !.SessStore = r.rs, !.pings = @ + r.pings,
                                   !.ran = Append(@, "InitSessStore"),
                                   !.err = r.err, !.phase = "failed"]
                 ELSE [core EXCEPT !.SessStore = [r.rs EXCEPT !.keyPrefix = "session:",
                                                             !.MaxAge = SessMaxAge],
                                   !.pings = @ + r.pings,
                                   !.ran = Append(@, "InitSessStore")]
    /\ UNCHANGED <<storeVars, unit, call, mw>>

\* Core.Init calls one of the handlers that do not touch the session store
\* (InitGorm, InitTmpDir); it returns nil or an error.  InitGorm may fail
\* before or after it has set Core.Gorm; a failed InitTmpDir leaves TmpDir ""
InitOther(h, ok) ==
    /\ InInit /\ NextInit = h
    /\ h \in {"InitGorm", "InitTmpDir"}
    /\ \E opened \in BOOLEAN :
          /\ ok => opened
          /\ (h = "InitTmpDir" /\ ~ok) => ~opened
          /\ LET c1 == IF ~opened THEN core
                       ELSE IF h = "InitGorm" THEN [core EXCEPT !.Gorm = "set"]
                       ELSE [core EXCEPT !.TmpDir = "dir"]
             IN core' = IF ok
                        THEN [c1 EXCEPT !.ran = Append(@, h)]
                        ELSE [c1 EXCEPT !.ran = Append(@, h), !.err = "init: " \o h,
                                        !.phase = "failed"]
    /\ UNCHANGED <<storeVars, unit, call, mw>>

\* Core.Init has called every handler and returns nil
InitReturn ==
    /\ core.phase = "init" /\ Len(core.ran) = Len(core.inits)
    /\ core' = [core EXCEPT !.phase = "up"]
    /\ UNCHANGED <<storeVars, unit, call, mw>>

\* Core.Shutdown, applied to the Core c: each handle that is set is closed
\* and cleared, the session store first, then the Redis client it was built on
ShutdownOf(c) ==
    LET c1 == IF c.SessStore.set
              THEN [c EXCEPT !.released.redis = @ + 1, !.SessStore = NilStore,
                             !.lastCloses = @ + 1]
              ELSE c
        c2 == IF c1.Redis # "nil"
              THEN [c1 EXCEPT !.released.redis = @ + 1, !.Redis = "nil",
                              !.lastCloses = @ + 1]
              ELSE c1
        c3 == IF c2.Gorm # "nil"
              THEN [c2 EXCEPT !.released.gorm = @ + 1, !.Gorm = "nil",
                              !.lastCloses = @ + 1]
              ELSE c2
        c4 == IF c3.TmpDir # ""
              THEN [c3 EXCEPT !.released.tmp = @ + 1, !.TmpDir = "",
                              !.lastCloses = @ + 1]
              ELSE c3
    IN [c4 EXCEPT !.shutdowns = @ + 1]

\* the application calls Core.Shutdown after Init has returned
Shutdown ==
    /\ core.phase \in {"up", "failed"}
    /\ core.run.main \in {"idle", "returned"}
    /\ core.shutdowns < MaxShutdowns
    /\ core' = ShutdownOf([core EXCEPT !.lastCloses = 0])
    /\ UNCHANGED <<storeVars, unit, call, mw>>

\* Run is called: the channel is made and registered, wg.Add(1), ListenSig
\* is started as a goroutine, and Run goes on to e.Start
RunCall ==
    /\ core.phase = "up" /\ core.run.main = "idle"
    /\ core' = [core EXCEPT !.run = [main |-> "start", lis |-> "recv", sig |-> 0,
                                     wg |-> 1, server |-> "starting"]]
    /\ UNCHANGED <<storeVars, unit, call, mw>>

\* the operating system delivers SIGINT or SIGTERM; Notify drops it when the
\* channel is full
Signal ==
    /\ core.run.main \in {"start", "wait"}
    /\ core.run.sig < SigCap
    /\ core' = [core EXCEPT !.run.sig = @ + 1]
    /\ UNCHANGED <<storeVars, unit, call, mw>>

\* e.Start returns: at once with an error when it cannot bind, or with
\* ErrServerClosed once the server has been shut down; Run logs and goes on
\* to wg.Wait()
StartReturns(bound) ==
    /\ core.run.main = "start"
    /\ IF bound THEN core.run.server = "closed" ELSE core.run.server = "starting"
    /\ core' = [core EXCEPT !.run.main = "wait",
                            !.run.server = IF bound THEN "closed" ELSE "failed"]
    /\ UNCHANGED <<storeVars, unit, call, mw>>

\* ListenSig: sig := <-ch
ListenRecv ==
    /\ core.run.lis = "recv" /\ core.run.sig > 0
    /\ core' = [core EXCEPT !.run.sig = @ - 1, !.run.lis = "echo"]
    /\ UNCHANGED <<storeVars, unit, call, mw>>

\* ListenSig: e.Shutdown(ctx) with its timeout
ListenEchoShutdown ==
    /\ core.run.lis = "echo"
    /\ core' = [core EXCEPT !.run.lis = "core",
                            !.run.server = IF @ = "failed" THEN @ ELSE "closed"]
    /\ UNCHANGED <<storeVars, unit, call, mw>>

\* ListenSig: c.Shutdown()
ListenCoreShutdown ==
    /\ core.run.lis = "core"
    /\ core' = [ShutdownOf([core EXCEPT !.lastCloses = 0]) EXCEPT !.run.lis = "wgdone"]
    /\ UNCHANGED <<storeVars, unit, call, mw>>

\* ListenSig: wg.Done()
ListenDone ==
    /\ core.run.lis = "wgdone"
    /\ core' = [core EXCEPT !.run.lis = "done", !.run.wg = @ - 1]
    /\ UNCHANGED <<storeVars, unit, call, mw>>

\* Run: wg.Wait() returns once the counter is zero, and Run returns
RunReturn ==
    /\ core.run.main = "wait" /\ core.run.wg = 0
    /\ core' = [core EXCEPT !.run.main = "returned"]
    /\ UNCHANGED <<storeVars, unit, call, mw>>

\* a step of Run or of ListenSig that needs nothing from outside the process
RunProgress ==
    \/ ListenRecv
    \/ ListenEchoShutdown
    \/ ListenCoreShutdown
    \/ ListenDone
    \/ RunReturn

\* the process is started again: NewCore
CoreStart ==
    /\ core.phase \in {"up", "failed", "panicked"}
    /\ core' = CoreNew
    /\ UNCHANGED <<storeVars, unit, call, mw>>

\* the life of the process: NewCore, Core.Init with its handlers, Run with
\* its signal listener, Core.Shutdown
NextInitCore ==
    \/ \E inits \in InitLists : CoreInit(inits)
    \/ \E net \in NetOutcomes : InitRedis(net)
    \/ \E net \in NetOutcomes : InitSessStore(net)
    \/ \E h \in InitHandlers, ok \in BOOLEAN : InitOther(h, ok)
    \/ InitReturn
    \/ Shutdown
    \/ RunCall
    \/ Signal
    \/ \E bound \in BOOLEAN : StartReturns(bound)
    \/ ListenRecv
    \/ ListenEchoShutdown
    \/ ListenCoreShutdown
    \/ ListenDone
    \/ RunReturn
    \/ CoreStart

SpecInit == Init /\ [][NextInitCore]_vars

\* a request arrives at the middleware chain
MwBegin(cookie, skip) ==
    /\ BeginRequestStep(cookie, skip)
    /\ mw' = NoMw
    /\ UNCHANGED <<core, unit, call>>

\* SessionMiddleware up to its call of next: redstore.Get, then c.Set unless
\* Get failed, then next(c)
SessionMiddleware(net) ==
    /\ mw.phase = "idle"
    /\ GetCallStep(SessID, net)
    /\ mw' = [mw EXCEPT !.phase = "next",
                        !.geterr = last'.err,
                        !.attached = Attach(last'.sess, last'.err),
                        !.nexts = @ + 1]
    /\ UNCHANGED <<core, unit, call>>

\* the next handler looks the session up
MwHandlerGet(name, net) ==
    /\ mw.phase = "next"
    /\ LookupGet(name, net)

\* the next handler saves a session
MwHandlerSave(s, net, kg) ==
    /\ mw.phase = "next"
    /\ HandlerSave(s, net, kg)

\* next(c) returns and SessionMiddleware returns what it returned
MwReturn(res) ==
    /\ mw.phase = "next"
    /\ mw' = [mw EXCEPT !.phase = "done", !.res = res, !.ret = res]
    /\ last' = NoLast
    /\ UNCHANGED <<cache, options, req, sessions, registry, loads, generated, stored,
                   core, unit, call>>

\* the chain has returned: context.Clear
MwEnd ==
    /\ mw.phase = "done"
    /\ EndRequestStep
    /\ mw' = NoMw
    /\ UNCHANGED <<core, unit, call>>

\* requests served through the store middleware and SessionMiddleware
NextMiddleware ==
    \/ \E cookie \in RequestCookies, skip \in BOOLEAN : MwBegin(cookie, skip)
    \/ \E net \in NetOutcomes : SessionMiddleware(net)
    \/ \E name \in Names, net \in NetOutcomes : MwHandlerGet(name, net)
    \/ \E s \in 1 .. MaxLookups, net \in NetOutcomes, kg \in KeyGenResults :
          MwHandlerSave(s, net, kg)
    \/ \E res \in HandlerResults : MwReturn(res)
    \/ MwEnd
    \/ \E i \in Ids : ForeignWrite(Key(i))

SpecMiddleware == Init /\ [][NextMiddleware]_vars

\* a request arrives and passes the store middleware; its context is live
CancelBegin(cookie) ==
    /\ BeginRequestStep(cookie, FALSE)
    /\ call' = [NoCall EXCEPT !.stuck = call.stuck]
    /\ UNCHANGED <<core, unit, mw>>

\* the client goes away or the request's deadline passes: r.Context() is done
CtxCancel ==
    /\ req.active /\ ~call.done
    /\ call' = [call EXCEPT !.done = TRUE]
    /\ last' = NoLast
    /\ UNCHANGED <<cache, options, req, sessions, registry, loads, generated, stored,
                   core, unit, mw>>

\* the cache stops answering, or answers again
CacheStall(stuck) ==
    /\ call.stuck # stuck
    /\ call' = [call EXCEPT !.stuck = stuck]
    /\ last' = NoLast
    /\ UNCHANGED <<cache, options, req, sessions, registry, loads, generated, stored,
                   core, unit, mw>>

\* the handler calls redstore.New; the call is under way
StartNew ==
    /\ req.active /\ call.pending = "none"
    /\ Len(sessions) < MaxSessions
    /\ call' = [call EXCEPT !.pending = "New", !.ctx = CallCtx("New")]
    /\ last' = NoLast
    /\ UNCHANGED <<cache, options, req, sessions, registry, loads, generated, stored,
                   core, unit, mw>>

\* the handler calls session.Save; the call is under way
StartSave(s) ==
    /\ req.active /\ call.pending = "none"
    /\ s \in 1 .. Len(sessions)
    /\ call' = [call EXCEPT !.pending = "Save", !.s = s, !.ctx = CallCtx("Save")]
    /\ last' = NoLast
    /\ UNCHANGED <<cache, options, req, sessions, registry, loads, generated, stored,
                   core, unit, mw>>

\* New returns: at once when it sends no command, otherwise with whatever the
\* client makes of its GET under the context it was given
FinishNew(net) ==
    /\ call.pending = "New"
    /\ NewCallStep(SessID, net)
    /\ last'.ops = {} \/ net \in CtxOutcomes(call.ctx, call)
    /\ call' = [call EXCEPT !.pending = "none"]
    /\ UNCHANGED <<core, unit, mw>>

\* Save returns: at once when it sends no command, otherwise with whatever the
\* client makes of its SET or DEL under the context it was given
FinishSave(net, kg) ==
    /\ call.pending = "Save"
    /\ HandlerSaveStep(call.s, net, kg)
    /\ last'.ops = {} \/ net \in CtxOutcomes(call.ctx, call)
    /\ call' = [call EXCEPT !.pending = "none", !.s = 0]
    /\ UNCHANGED <<core, unit, mw>>

\* the handler has returned
CancelEnd ==
    /\ call.pending = "none"
    /\ EndRequestStep
    /\ call' = [NoCall EXCEPT !.stuck = call.stuck]
    /\ UNCHANGED <<core, unit, mw>>

\* the store call under way returns
CallReturns ==
    \/ \E net \in CtxNetOutcomes : FinishNew(net)
    \/ \E net \in CtxNetOutcomes, kg \in KeyGenResults : FinishSave(net, kg)

\* requests whose context may end, against a cache that may stop answering
NextCancel ==
    \/ \E cookie \in RequestCookies : CancelBegin(cookie)
    \/ CtxCancel
    \/ \E stuck \in BOOLEAN : CacheStall(stuck)
    \/ StartNew
    \/ \E s \in 1 .. MaxSessions : StartSave(s)
    \/ \E net \in CtxNetOutcomes : FinishNew(net)
    \/ \E net \in CtxNetOutcomes, kg \in KeyGenResults : FinishSave(net, kg)
    \/ \E s \in 1 .. MaxSessions, m \in MaxAges : SetMaxAge(s, m)
    \/ CancelEnd

SpecCancel == Init /\ [][NextCancel]_vars

(* ------------------------------------------------------------------ *)
(* Properties                                                          *)
(* ------------------------------------------------------------------ *)

\* the call just made ran RedisStore.New and handed back a session object
Built == last.op \in {"New", "Get"} /\ last.sess # 0 /\ ~last.hit
\* the call just made was a Save
Saved == last.op = "Save"
\* the session object the call just made returned or saved
Sess == sessions[last.sess]
\* the Set-Cookie that clears, and the one that carries the id
ClearCookie == NewCookie(Sess.name, "", Sess.MaxAge)
IdCookie == NewCookie(Sess.name, Sess.ID, Sess.MaxAge)
Cmds == {o.cmd : o \in last.ops}
\* the cache answered the command the call sent
Answered == last.ops # {} /\ last.net = "ok"
Decodable(b) == b.n = Len(b.pairs)

\* C1: a New on a request carrying the cookie of an id that a successful Save
\* (max-age >= 0) stored with values V, with no later save, delete, foreign
\* write or expiry of that id, and whose GET the cache answers, returns a nil
\* error and a session with IsNew false, that ID and Values equal to V.
C1_SaveThenNew ==
    (Built /\ req.cookie.present /\ stored[req.cookie.value].present /\ Answered)
        => /\ last.err = NoErr
           /\ Sess.IsNew = FALSE
           /\ Sess.ID = req.cookie.value
           /\ Sess.Values = stored[req.cookie.value].Values

C1_Witness ==
    /\ Built /\ last.op = "New" /\ req.cookie.present
    /\ stored[req.cookie.value].present
    /\ stored[req.cookie.value].Values # EmptyValues
    /\ Sess.Values = stored[req.cookie.value].Values
    /\ ~Sess.IsNew

\* C2 (as stated): every Save with max-age <= 0, zero included, sends a DEL
\* for prefix+ID and no SET, and once the DEL went through the entry is gone
\* and the cookie is cleared.
C2_DeleteAtZeroOrBelow ==
    (Saved /\ last.pre.MaxAge <= 0)
        => /\ "SET" \notin Cmds
           /\ [cmd |-> "DEL", key |-> Key(last.pre.ID)] \in last.ops
           /\ last.err = NoErr =>
                 /\ ~cache[Key(last.pre.ID)].present
                 /\ last.cookies = <<ClearCookie>>

\* C2 (amended): Save deletes only at max-age < 0: it then sends a DEL for
\* prefix+ID and no SET, and once the DEL went through the entry is gone and
\* the cookie is cleared.  At max-age exactly 0 Save is a write: it sends no
\* DEL, and when it returns nil the blob is stored at prefix+ID without expiry
\* and the cookie carries the id.
C2_DeleteBelowZeroOnly ==
    /\ (Saved /\ last.pre.MaxAge < 0)
          => /\ last.ops = {[cmd |-> "DEL", key |-> Key(last.pre.ID)]}
             /\ last.err = NoErr =>
                   /\ ~cache[Key(last.pre.ID)].present
                   /\ last.cookies = <<ClearCookie>>
    /\ (Saved /\ last.pre.MaxAge = 0)
          => /\ "DEL" \notin Cmds
             /\ last.err = NoErr =>
                   /\ last.ops = {[cmd |-> "SET", key |-> Key(Sess.ID)]}
                   /\ cache[Key(Sess.ID)].present
                   /\ cache[Key(Sess.ID)].ttl = 0
                   /\ last.cookies = <<IdCookie>>

C2_Witness ==
    /\ Saved /\ last.pre.MaxAge = 0 /\ last.err = NoErr
    /\ last.was.present
    /\ cache[Key(Sess.ID)].present
    /\ last.cookies = <<IdCookie>>

\* C3 (as stated): every Save with max-age < 0 sends no SET, sends a DEL for
\* prefix+ID and writes the clearing cookie.
C3_AlwaysClearsCookie ==
    (Saved /\ last.pre.MaxAge < 0)
        => /\ "SET" \notin Cmds
           /\ [cmd |-> "DEL", key |-> Key(last.pre.ID)] \in last.ops
           /\ last.cookies = <<ClearCookie>>

\* C3 (amended): every Save with max-age < 0 sends exactly one cache command,
\* a DEL for prefix+ID, and never a SET; the DEL fails only when the cache
\* cannot be reached, not when the key is missing; the clearing cookie (the
\* session's name, an empty value) is written exactly when the DEL returned
\* nil, and otherwise Save returns the error and writes no cookie.
C3_ClearsCookieIffDeleted ==
    (Saved /\ last.pre.MaxAge < 0)
        => /\ last.ops = {[cmd |-> "DEL", key |-> Key(last.pre.ID)]}
           /\ last.err = (IF last.net = "ok" THEN NoErr ELSE ErrUnavailable)
           /\ last.cookies = (IF last.err = NoErr THEN <<ClearCookie>> ELSE <<>>)
           /\ ClearCookie.value = "" /\ ClearCookie.name = last.pre.name
           /\ last.err = NoErr => ~cache[Key(last.pre.ID)].present
           /\ last.err # NoErr => cache[Key(last.pre.ID)] = last.was

C3_Witness ==
    /\ Saved /\ last.pre.MaxAge < 0
    /\ last.pre.ID # ""
    /\ ~last.was.present
    /\ last.err = NoErr
    /\ last.cookies = <<ClearCookie>>

\* C4: a session New returns has IsNew false exactly when the request carried
\* the cookie and the load of prefix+cookieValue succeeded (the cache answered
\* with an entry and it decoded); a cookie for which the cache answers "no
\* entry" yields IsNew true and a nil error.
C4_IsNewIffNotLoaded ==
    Built =>
        /\ Sess.IsNew = FALSE <=>
              /\ req.cookie.present
              /\ Answered
              /\ last.was.present
              /\ Decodable(last.was.b)
        /\ (req.cookie.present /\ Answered /\ ~last.was.present)
              => Sess.IsNew /\ last.err = NoErr
        /\ req.cookie.present => last.was = cache[Key(req.cookie.value)]

C4_Witness ==
    /\ Built /\ last.op = "New"
    /\ req.cookie.present /\ req.cookie.value # ""
    /\ Answered /\ ~last.was.present
    /\ Sess.IsNew /\ last.err = NoErr

\* C5 (as stated): a session that is new comes to its first Save with an
\* empty ID, and every id under which Save stores an entry and which it sends
\* back in a cookie is one the key generator returned, never the client's.
C5_OnlyGeneratedIds ==
    /\ (Saved /\ last.pre.IsNew /\ last.pre.saved = "") => last.pre.ID = ""
    /\ (Saved /\ "SET" \in Cmds /\ last.cookies = <<IdCookie>>)
          => Sess.ID \in generated

\* C6: Save calls the key generator exactly when the session's ID is empty and
\* max-age >= 0; the id it returns is the one the same call writes under; a
\* session with a non-empty ID keeps it and every command of the call goes to
\* prefix+that ID; and a Save of an object Save has stored before calls no
\* generator and writes under the id of the earlier Save.
C6_KeyGenOnlyForEmptyId ==
    Saved =>
        /\ last.gen <=> (last.pre.ID = "" /\ last.pre.MaxAge >= 0)
        /\ (last.gen /\ last.err # ErrKeyGen)
              => /\ Sess.ID \in generated /\ Sess.ID # ""
                 /\ \A o \in last.ops : o.key = Key(Sess.ID)
        /\ (last.gen /\ last.err = ErrKeyGen) => Sess.ID = ""
        /\ last.pre.ID # ""
              => /\ Sess.ID = last.pre.ID
                 /\ \A o \in last.ops : o.key = Key(last.pre.ID)
        /\ last.pre.saved # ""
              => /\ ~last.gen
                 /\ Sess.ID = last.pre.saved
                 /\ \A o \in last.ops : o.key = Key(last.pre.saved)

C6_Witness ==
    /\ Saved /\ last.err = NoErr /\ "SET" \in Cmds
    /\ ~req.cookie.present
    /\ last.pre.saved # "" /\ last.pre.saved \in generated
    /\ ~last.gen
    /\ Sess.ID = last.pre.saved

\* C7: a Save with max-age >= 0 writes the cookie (the session's name and ID)
\* exactly when the SET of the serialized values at prefix+ID succeeded in
\* that call; when the key generator, the serializer or the SET fails, Save
\* returns an error and writes no cookie, and after a generator or serializer
\* failure it has sent the cache no command.
C7_CookieIffStored ==
    (Saved /\ last.pre.MaxAge >= 0) =>
        /\ last.cookies \in {<<>>, <<IdCookie>>}
        /\ last.cookies = <<IdCookie>> <=>
              /\ last.ops = {[cmd |-> "SET", key |-> Key(Sess.ID)]}
              /\ last.net = "ok"
              /\ cache[Key(Sess.ID)].present
              /\ \E ser \in Serialize(Sess.Values) :
                    ser.err = NoErr /\ cache[Key(Sess.ID)].b = ser.b
        /\ last.cookies = <<IdCookie>> <=> last.err = NoErr
        /\ last.err \in {ErrKeyGen, ErrEncode} => last.ops = {}
        /\ last.err # NoErr => cache[Key(Sess.ID)] = last.was
        /\ (last.gen /\ last.err = ErrKeyGen) \/ Encodable(Sess.Values)
              \/ last.err = ErrEncode

C7_Witness ==
    /\ Saved /\ last.pre.MaxAge >= 0
    /\ last.ops = {[cmd |-> "SET", key |-> Key(Sess.ID)]}
    /\ last.err = ErrUnavailable
    /\ last.cookies = <<>>

\* C8: when the cookie's id maps to a payload that does not decode, or the
\* GET fails for a reason other than "no entry", New returns that error; New
\* returns a nil error only when the cache answered and the entry was missing
\* or decoded.
C8_LoadErrorsPropagate ==
    (Built /\ req.cookie.present) =>
        /\ last.net # "ok" => last.err = ErrUnavailable
        /\ (Answered /\ last.was.present /\ ~Decodable(last.was.b))
              => last.err = ErrCorrupt
        /\ last.err = NoErr
              => /\ Answered
                 /\ ~last.was.present \/ Decodable(last.was.b)
        /\ last.err # NoErr => Sess.IsNew

C8_Witness ==
    /\ Built /\ last.op = "New" /\ req.cookie.present
    /\ Answered /\ last.was.present /\ ~Decodable(last.was.b)
    /\ last.err = ErrCorrupt

\* C9: New on a request without the cookie returns a nil error and a session
\* with IsNew true and an empty ID, and sends the cache no command.
C9_NoCookieNoLoad ==
    (Built /\ ~req.cookie.present) =>
        /\ last.err = NoErr
        /\ Sess.IsNew
        /\ Sess.ID = ""
        /\ Sess.Values = EmptyValues
        /\ last.ops = {}
        /\ loads.New + loads.Get = 0

C9_Witness ==
    /\ Built /\ last.op = "New" /\ ~req.cookie.present
    /\ Sess.IsNew /\ Sess.ID = "" /\ last.ops = {}
    /\ \E k \in CacheKeys : cache[k].present

\* the registry entry of the session name
Info == registry[SessID]

\* what holds after every call of a request that has the store and the cookie
C10_Calls ==
    (req.active /\ req.store) =>
        /\ loads.Get <= 1
        /\ loads.Get = (IF Info.present /\ req.cookie.present THEN 1 ELSE 0)
        /\ loads.New + loads.Get = (IF req.cookie.present THEN Len(sessions) ELSE 0)
        /\ (last.op = "Get" /\ last.sess # 0)
              => /\ Info.present /\ last.sess = Info.s /\ last.err = Info.e
                 /\ last.hit => last.ops = {}
        /\ (last.op = "New" /\ last.sess # 0)
              => /\ last.sess = Len(sessions)
                 /\ Info.present => last.sess # Info.s
                 /\ Sess.saved = ""
                 /\ last.ops = (IF req.cookie.present
                                THEN {[cmd |-> "GET", key |-> Key(req.cookie.value)]}
                                ELSE {})

\* within a request a registered name keeps its session object, and New
\* leaves the registry and the objects built before it alone
C10_Kept ==
    /\ (req.active /\ req'.active /\ Info.present) => Info' = Info
    /\ (req.active /\ last'.op = "New" /\ last'.sess # 0)
          => /\ registry' = registry
             /\ sessions' = Append(sessions, sessions'[Len(sessions')])

\* C10: within one request, repeated Get calls with the same name return the
\* same session object and cause at most one cache GET, while every New
\* builds a further session object of its own and, the cookie being there,
\* sends its own GET.
C10_GetOncePerRequest == [] C10_Calls /\ [][C10_Kept]_vars

C10_Witness ==
    /\ last.op = "Get" /\ last.hit
    /\ req.cookie.present
    /\ Len(sessions) = 2 /\ Info.s = 2
    /\ loads.Get = 1 /\ loads.New = 1
    /\ ~Sess.IsNew

\* C12 (as stated): every successful Save with max-age >= 0, zero included,
\* leaves the entry at prefix+ID with an expiry of max-age seconds, and a New
\* with the id of an entry whose time to live has run out finds no entry and
\* returns IsNew true.
C12_TtlIsMaxAge ==
    /\ (Saved /\ last.pre.MaxAge >= 0 /\ last.err = NoErr)
          => /\ cache[Key(Sess.ID)].present
             /\ Expires(cache[Key(Sess.ID)])
             /\ cache[Key(Sess.ID)].ttl = Sess.MaxAge
    /\ (Built /\ req.cookie.present /\ stored[req.cookie.value] = Expired /\ Answered)
          => last.err = NoErr /\ Sess.IsNew

\* C12 (amended): every successful Save with max-age > 0 leaves the entry at
\* prefix+ID with an expiry of max-age seconds, whatever expiry the entry had
\* before; a successful Save with max-age exactly 0 leaves the entry without
\* any expiry, so it is never dropped for age.  Once the time to live of an
\* entry has run out with no further save the entry is gone, and a New with
\* that id whose GET the cache answers returns a nil error and IsNew true.
C12_TtlIffPositive ==
    /\ (Saved /\ last.pre.MaxAge >= 0 /\ last.err = NoErr)
          => /\ cache[Key(Sess.ID)].present
             /\ cache[Key(Sess.ID)].ttl = Sess.MaxAge
             /\ Expires(cache[Key(Sess.ID)]) <=> Sess.MaxAge > 0
    /\ \A i \in Ids \cup {""} : stored[i] = Expired => ~cache[Key(i)].present
    /\ (Built /\ req.cookie.present /\ stored[req.cookie.value] = Expired /\ Answered)
          => last.err = NoErr /\ Sess.IsNew

\* a New finds nothing under an id whose entry, saved with an expiry, ran out
C12_Witness ==
    /\ Built /\ req.cookie.present /\ Answered
    /\ stored[req.cookie.value] = Expired
    /\ Sess.IsNew /\ Sess.ID = req.cookie.value

\* the commands of the store call just made address prefix+ID of its session
\* and the step changed no other key of the cache
C13_Step ==
    last'.op # "none" =>
        IF last'.sess = 0
        THEN last'.ops = {} /\ cache' = cache
        ELSE /\ \A o \in last'.ops : o.key = keyPrefix \o sessions'[last'.sess].ID
             /\ \A k \in CacheKeys :
                   k # keyPrefix \o sessions'[last'.sess].ID => cache'[k] = cache[k]
             /\ last'.ops = {} => cache' = cache

\* what Save stored under an id is at prefix+id, where load looks for it
C13_Found ==
    /\ \A i \in Ids \cup {""} : stored[i].present => cache[keyPrefix \o i].present
    /\ (Built /\ req.cookie.present /\ stored[req.cookie.value].present)
          => /\ last.ops = {[cmd |-> "GET", key |-> keyPrefix \o req.cookie.value]}
             /\ last.was.present
    /\ (Saved /\ last.pre.MaxAge < 0 /\ last.err = NoErr)
          => ~cache[keyPrefix \o last.pre.ID].present

\* C13: every cache command of the store (GET in load, SET in save, DEL in
\* delete) addresses exactly the key prefix+ID of the session it is called
\* for, with the store's one prefix, and a store call leaves every other key
\* of the cache as it was; what a Save stored is found under that same key by
\* the load of a later New and removed from it by delete.
C13_OwnKeyOnly == [] C13_Found /\ [][C13_Step]_vars

\* a Save removed one session's entry while another id's entry stayed
C13_Witness ==
    /\ Saved /\ last.err = NoErr /\ "DEL" \in Cmds /\ last.was.present
    /\ \E k \in CacheKeys : k # Key(Sess.ID) /\ cache[k].present

\* C19: once a Save with max-age < 0 has succeeded for an id, and until
\* something is saved under that id again, the cache holds no entry at
\* prefix+id, and a New on a request that still presents the cookie with that
\* id, whose GET the cache answers, returns a nil error and a session with
\* IsNew true and empty Values.
C19_DeletedThenNew ==
    /\ \A i \in Ids \cup {""} : stored[i] = Deleted => ~cache[Key(i)].present
    /\ (Built /\ req.cookie.present /\ stored[req.cookie.value] = Deleted /\ Answered)
          => /\ last.err = NoErr
             /\ Sess.IsNew
             /\ Sess.Values = EmptyValues

C19_Witness ==
    /\ Built /\ req.cookie.present /\ Answered
    /\ stored[req.cookie.value] = Deleted
    /\ Sess.ID = req.cookie.value /\ Sess.IsNew /\ last.err = NoErr

\* the values a payload decodes to in a fresh session
Decoded(b) == Deserialize(b, EmptyValues).Values

\* C11: when requests that loaded the same session id each Save their own
\* values, no Save is refused or held back because the entry changed since
\* it was loaded: a Save whose values encode, whose id is there and whose SET
\* the cache answers returns nil; and after each such Save the entry at
\* prefix+ID decodes to exactly the values of the request that saved last,
\* with nothing of what the entry held before merged in.
C11_LastWriteWins ==
    /\ (Saved /\ ~IsDelete(last.pre.MaxAge) /\ Encodable(last.pre.Values)
            /\ last.err # ErrKeyGen /\ last.net = "ok")
          => last.err = NoErr
    /\ (Saved /\ ~IsDelete(last.pre.MaxAge) /\ last.err = NoErr)
          => /\ cache[Key(Sess.ID)].present
             /\ Decoded(cache[Key(Sess.ID)].b) = Sess.Values

\* two requests loaded the same stored session, the first saved its values,
\* and the second has just saved different ones over them
C11_Witness ==
    /\ Saved /\ last.err = NoErr /\ last.sess = 2
    /\ ~sessions[1].IsNew /\ ~sessions[2].IsNew
    /\ sessions[1].ID = sessions[2].ID
    /\ sessions[1].saved = sessions[1].ID
    /\ sessions[1].Values # sessions[2].Values
    /\ sessions[1].Values # EmptyValues
    /\ last.was.present /\ Decoded(last.was.b) = sessions[1].Values
    /\ Decoded(cache[Key(Sess.ID)].b) = sessions[2].Values

\* a step that changes the store's defaults changes no session, a step that
\* changes one session's options changes neither the defaults nor another
\* session, and a session New builds starts from the defaults of that moment
C14_Step ==
    /\ options' # options => sessions' = sessions
    /\ \A i \in DOMAIN sessions \cap DOMAIN sessions' :
          sessions'[i].MaxAge # sessions[i].MaxAge
              => /\ options' = options
                 /\ \A j \in DOMAIN sessions \ {i} : sessions'[j] = sessions[j]
    /\ Len(sessions') = Len(sessions) + 1
          => /\ sessions'[Len(sessions')].MaxAge = options.MaxAge
             /\ options' = options
             /\ \A j \in DOMAIN sessions : sessions'[j] = sessions[j]

\* C14: each session New returns holds its own copy of the store's default
\* options as they are when it is built; the store's Options setter called
\* afterwards changes the defaults for sessions built later and no session
\* that exists; changing one session's Options changes neither the store's
\* defaults nor any other session's options.
C14_OwnOptions ==
    /\ [] (Built => Sess.MaxAge = options.MaxAge)
    /\ [][C14_Step]_vars

\* a session built after the setter ran has the new defaults while the one
\* built before still has the old ones
C14_Witness ==
    /\ Built /\ last.sess = 2
    /\ options.MaxAge # SessMaxAge
    /\ sessions[1].MaxAge = SessMaxAge
    /\ sessions[2].MaxAge = options.MaxAge

\* C15 (as stated): the default generator returns ("", error) or a string of
\* exactly 64 characters, each taken by an index drawn over a fixed alphabet
\* of exactly 64 distinct characters.
C15_Alphabet64 ==
    (unit.kind = "keyGen" /\ unit.done)
        => /\ unit.err => unit.retLen = 0
           /\ ~unit.err =>
                 /\ unit.retLen = 64
                 /\ unit.c \in LetterSet
                 /\ Len(letters) = 64 /\ Cardinality(LetterSet) = 64

\* C15 (amended): the default generator returns either ("", error), when the
\* random source fails at any position, or a string of exactly 64 characters,
\* each taken by an index drawn from 0 .. 62 over a fixed alphabet of exactly
\* 63 distinct characters (the 62 alphanumerics and the hyphen); it never
\* returns a shorter or partial identifier.
C15_Alphabet63 ==
    /\ Len(letters) = 63 /\ Cardinality(LetterSet) = 63
    /\ unit.kind = "keyGen" =>
          /\ unit.i \in 0 .. KeyGenN
          /\ unit.i > 0 => unit.c \in LetterSet
          /\ unit.done =>
                /\ unit.err => unit.retLen = 0
                /\ ~unit.err => unit.retLen = 64 /\ unit.i = 64
                /\ unit.retLen \in {0, 64}

\* the source failed after some characters were drawn and nothing was returned
C15_Witness ==
    /\ unit.kind = "keyGen" /\ unit.done /\ unit.err
    /\ unit.i > 0 /\ unit.c = letters[Len(letters)]
    /\ unit.retLen = 0

C17_FailFast ==
    (core.phase = "failed" /\ core.ran # <<>>
        /\ core.ran[Len(core.ran)] = "InitSessStore")
        => /\ core.pings = 1
           /\ core.err = ErrUnavailable
           /\ Len(core.ran) <= Len(core.inits)
           /\ \A i \in 1 .. Len(core.ran) : core.ran[i] = core.inits[i]
           /\ core.SessStore = NilStore

\* C20: SessionMiddleware calls the next handler exactly once for every
\* request and returns what it returned; when redstore.Get fails (no store in
\* the context, cache unavailable, corrupt payload) the request goes on with
\* nothing attached under the session key, and the session Get returned is
\* attached exactly when Get returned no error.
C20_NextOnceAttachIffNoError ==
    /\ mw.phase = "idle" => mw.nexts = 0 /\ mw.attached = 0
    /\ mw.phase \in {"next", "done"} =>
          /\ mw.nexts = 1
          /\ mw.attached # 0 <=> mw.geterr = NoErr
          /\ mw.geterr = NoErr =>
                registry[SessID].present /\ mw.attached = registry[SessID].s
    /\ mw.phase = "done" => mw.ret = mw.res
    /\ (last.op = "Get" /\ mw.phase = "next" /\ mw.geterr # NoErr /\ ~last.hit
           /\ last.sess = 0)
          => last.err = ErrNoStore

\* Get failed on a corrupt payload, and the request went through the next
\* handler, whose error came back, with no session attached
C20_Witness ==
    /\ mw.phase = "done" /\ mw.geterr = ErrCorrupt
    /\ mw.attached = 0 /\ mw.nexts = 1
    /\ mw.ret = "handler: error"

C23_InitInOrder ==
    /\ Len(core.ran) <= Len(core.inits)
    /\ \A i \in 1 .. Len(core.ran) : core.ran[i] = core.inits[i]
    /\ \A i, j \in 1 .. Len(core.ran) : i # j => core.ran[i] # core.ran[j]
    /\ core.phase = "init" => core.err = NoErr
    /\ core.phase = "failed" =>
          /\ core.ran # <<>>
          /\ core.err # NoErr
          /\ core.ran[Len(core.ran)] \in {"InitGorm", "InitTmpDir"}
                => core.err = "init: " \o core.ran[Len(core.ran)]
          /\ core.ran[Len(core.ran)] \in {"InitRedis", "InitSessStore"}
                => core.err = ErrUnavailable
    /\ core.phase = "up" => core.ran = core.inits /\ core.err = NoErr

\* the second of four handlers failed and the last two were never called
C23_Witness ==
    /\ core.phase = "failed"
    /\ Len(core.inits) = 4 /\ Len(core.ran) = 2
    /\ core.ran = <<"InitRedis", "InitTmpDir">>
    /\ core.err = "init: InitTmpDir"

\* every handle of the Core is cleared
AllCleared ==
    /\ ~core.SessStore.set /\ core.Redis = "nil"
    /\ core.Gorm = "nil" /\ core.TmpDir = ""

\* C21: over the init handlers and any number of Core.Shutdown calls after
\* them, every resource is released at most once (the Redis client that the
\* session store and Core.Redis share is never closed twice), every handle is
\* cleared once Shutdown has run, and a repeated Shutdown closes nothing.
C21_ReleasedOnce ==
    /\ \A r \in DOMAIN core.released : core.released[r] <= 1
    /\ core.shutdowns >= 1 => AllCleared
    /\ core.shutdowns >= 2 => core.lastCloses = 0

\* a New or Get step leaves the whole cache as it was, and a store call that
\* changes the cache is a Save
C22_Step ==
    /\ last'.op \in {"New", "Get"} => cache' = cache
    /\ (last'.op # "none" /\ cache' # cache) => last'.op = "Save"

\* C22: New and Get only read the cache: whatever the cookie and whatever
\* the outcome (hit, miss, corrupt payload, error), no New or Get creates,
\* overwrites, deletes or re-expires an entry; of the store's operations
\* only Save changes the cache.
C22_NewGetReadOnly == [][C22_Step]_vars

\* a New met a payload it could not decode and the entry is still there
C22_Witness ==
    /\ Built /\ last.err = ErrCorrupt
    /\ last.was.present
    /\ cache[Key(req.cookie.value)] = last.was

\* C25: in both copies the skipper built by SkipperRouteName(names) answers
\* true for a request exactly when the registered route with the request's
\* method and path has a name in names; with no names it answers false for
\* every request.
C25_SkipIffMatchedRouteNamed ==
    unit.kind = "skipper" =>
        /\ unit.names = {} => ~unit.out
        /\ unit.out <=>
              \E r \in unit.routes :
                 r.Method = unit.method /\ r.Path = unit.path /\ r.Name \in unit.names

\* C24: once e.Start has returned, Run goes on to return without needing
\* anything from outside the process, also when Start failed at once and no
\* signal is ever delivered (Run never sits in a state where neither it nor
\* the signal listener has a step to take); and Run does not return before
\* the signal listener has finished Core.Shutdown.
C24_RunReturns ==
    /\ core.run.main = "wait" => ENABLED RunProgress
    /\ core.run.main = "returned" =>
          /\ core.run.lis = "done"
          /\ core.shutdowns >= 1

====
